---- MODULE Spec2Model ----
(***************************************************************************)
(* A model of SyntheaPromptGenerator (src/prompt_constructor.py): the six  *)
(* pandas tables it loads from a directory of CSV files, the history       *)
(* aggregation and the four prompt generators that read them.              *)
(*                                                                         *)
(* A DataFrame is a record [kind, dates, rows]: rows is the ordered list   *)
(* of its rows (each a record keyed by column name) and dates is the dtype *)
(* of its date columns, "object" as read_csv leaves them (ISO strings) or  *)
(* "datetime64" once load_data has converted them (<<year, month, day>>).  *)
(* A str built by an f-string is kept as the sequence of its parts, the    *)
(* literal text and the values of the replacement fields in order; Text    *)
(* concatenates the parts into the str itself.                             *)
(***************************************************************************)
EXTENDS Integers, Sequences, FiniteSets, TLC

VARIABLES
    data_dir,   \* the CSV files found under self.data_dir
    store,      \* self.encounters .. self.observations
    ret         \* the last call made on the object and how it ended

vars == <<data_dir, store, ret>>

(***************************************************************************)
(* Bounds of the model.                                                    *)
(***************************************************************************)
MaxRows == 2    \* rows of the one table a directory varies
MaxItems == 3   \* items handed to _format_list when it is called directly

(***************************************************************************)
(* Values.                                                                 *)
(***************************************************************************)
NaN == "nan"    \* the missing value of an object column (prints as nan)
NaT == <<>>     \* the missing value of a datetime64 column
None == [kind |-> "None", dates |-> "", rows |-> <<>>]

LoadOrder ==
    <<"encounters", "conditions", "medications", "patients", "careplans",
      "observations">>

TableNames == {LoadOrder[i] : i \in DOMAIN LoadOrder}

date_columns ==
    [encounters |-> {"START", "STOP"},
     conditions |-> {"START", "STOP"},
     medications |-> {"START", "STOP"},
     careplans |-> {"START", "STOP"},
     patients |-> {"BIRTHDATE", "DEATHDATE"},
     observations |-> {"DATE"}]

Timestamps ==
    {<<2000, 12, 31>>, <<2001, 1, 1>>, <<2020, 1, 1>>, <<2020, 1, 2>>}

Pad2(n) == IF n < 10 THEN "0" \o ToString(n) ELSE ToString(n)

\* Timestamp.strftime('%Y-%m-%d')
strftime(t) == ToString(t[1]) \o "-" \o Pad2(t[2]) \o "-" \o Pad2(t[3])

\* pd.to_datetime(cell).tz_localize(None) on one cell of a date column
to_datetime(cell) ==
    IF cell = NaN THEN NaT
    ELSE CHOOSE t \in Timestamps : strftime(t) = cell

\* a <= b on two Timestamps; any comparison with NaT is False
TimestampLE(a, b) ==
    /\ a # NaT
    /\ b # NaT
    /\ \/ a[1] < b[1]
       \/ a[1] = b[1] /\ a[2] < b[2]
       \/ a[1] = b[1] /\ a[2] = b[2] /\ a[3] <= b[3]

(***************************************************************************)
(* The directories load_data is run on: one base directory, the            *)
(* directories that differ from it in the rows of one table, and the       *)
(* directories that lack some of its files.                                *)
(***************************************************************************)
PatientIds == {"p1", "p2"}
EncounterIds == {"e1", "e2"}
BirthDates == {"2000-12-31", "2001-01-01"}
VisitDates == {"2020-01-01", "2020-01-02"}
Languages == {"English", "Spanish"}

SeqsUpTo(S, n) == UNION {[1..k -> S] : k \in 0..n}

File(rows) == [exists |-> TRUE, rows |-> rows]
Absent == [exists |-> FALSE, rows |-> <<>>]

PatientRows ==
    [Id : PatientIds, BIRTHDATE : BirthDates, DEATHDATE : {NaN},
     GENDER : {"F"}, RACE : {"white"}, ETHNICITY : {"nonhispanic"}]

EncounterCores ==
    [Id : EncounterIds, PATIENT : PatientIds, START : {"2020-01-01"},
     STOP : {NaN}, REASONDESCRIPTION : {NaN, "Fever (finding)"}]

WindowCores ==
    [PATIENT : PatientIds, START : VisitDates, STOP : VisitDates \cup {NaN}]

CareplanCores ==
    [PATIENT : PatientIds, ENCOUNTER : EncounterIds, START : VisitDates,
     STOP : {"2020-01-01", NaN}]

ObservationCores ==
    [DATE : {"2020-01-01"}, PATIENT : PatientIds, ENCOUNTER : EncounterIds,
     DESCRIPTION : {"Body Height"}, UNITS : {NaN, "cm"}]

\* the rows of a table: row i carries the description word \o " " \o i
Described(cores, word) ==
    [i \in DOMAIN cores |->
        [f \in DOMAIN cores[i] \cup {"DESCRIPTION"} |->
            IF f = "DESCRIPTION" THEN word \o " " \o ToString(i)
            ELSE cores[i][f]]]

\* the rows of an observations table: row i carries the value 169 + i
Valued(cores) ==
    [i \in DOMAIN cores |->
        [f \in DOMAIN cores[i] \cup {"VALUE"} |->
            IF f = "VALUE" THEN ToString(169 + i) ELSE cores[i][f]]]

Tables(name) ==
    CASE name = "patients" -> SeqsUpTo(PatientRows, MaxRows)
      [] name = "encounters" ->
            {Described(c, "visit") : c \in SeqsUpTo(EncounterCores, MaxRows)}
      [] name = "conditions" ->
            {Described(c, "condition") : c \in SeqsUpTo(WindowCores, MaxRows)}
      [] name = "medications" ->
            {Described(c, "medication") : c \in SeqsUpTo(WindowCores, MaxRows)}
      [] name = "careplans" ->
            {Described(c, "careplan") : c \in SeqsUpTo(CareplanCores, MaxRows)}
      [] name = "observations" ->
            {Valued(c) : c \in SeqsUpTo(ObservationCores, MaxRows)}

BaseDir ==
    [encounters |-> File(Described(
        <<[Id |-> "e1", PATIENT |-> "p1", START |-> "2020-01-01",
           STOP |-> NaN, REASONDESCRIPTION |-> NaN],
          [Id |-> "e2", PATIENT |-> "p1", START |-> "2020-01-02",
           STOP |-> NaN, REASONDESCRIPTION |-> "Fever (finding)"]>>,
        "visit")),
     conditions |-> File(Described(
        <<[PATIENT |-> "p1", START |-> "2020-01-01", STOP |-> NaN]>>,
        "condition")),
     medications |-> File(Described(
        <<[PATIENT |-> "p1", START |-> "2020-01-01", STOP |-> "2020-01-02"]>>,
        "medication")),
     patients |-> File(
        <<[Id |-> "p1", BIRTHDATE |-> "2000-12-31", DEATHDATE |-> NaN,
           GENDER |-> "F", RACE |-> "white", ETHNICITY |-> "nonhispanic"],
          [Id |-> "p2", BIRTHDATE |-> "2001-01-01", DEATHDATE |-> NaN,
           GENDER |-> "F", RACE |-> "white", ETHNICITY |-> "nonhispanic"]>>),
     careplans |-> File(Described(
        <<[PATIENT |-> "p1", ENCOUNTER |-> "e1", START |-> "2020-01-01",
           STOP |-> NaN]>>,
        "careplan")),
     observations |-> File(Valued(
        <<[DATE |-> "2020-01-01", PATIENT |-> "p1", ENCOUNTER |-> "e1",
           DESCRIPTION |-> "Body Height", UNITS |-> NaN]>>))]

Dirs ==
    UNION {{[BaseDir EXCEPT ![name] = File(rows)] : rows \in Tables(name)} :
            name \in TableNames}
    \cup {[name \in TableNames |->
            IF name \in lost THEN Absent ELSE BaseDir[name]] :
            lost \in SUBSET TableNames}

(***************************************************************************)
(* How a call ends.                                                        *)
(***************************************************************************)
Return(op, args, value) ==
    [op |-> op, args |-> args, kind |-> "return", exc |-> "", value |-> value]

Raise(op, args, exc) ==
    [op |-> op, args |-> args, kind |-> "raise", exc |-> exc, value |-> <<>>]

(***************************************************************************)
(* __init__ and load_data.                                                 *)
(***************************************************************************)
Init ==
    /\ data_dir \in Dirs
    /\ store = [name \in TableNames |-> None]
    /\ ret = Return("__init__", <<>>, <<>>)

\* pd.read_csv(self.data_dir / name.csv), the file being there
read_csv(name) ==
    [kind |-> "DataFrame", dates |-> "object", rows |-> data_dir[name].rows]

\* df[col] = pd.to_datetime(df[col]).dt.tz_localize(None), for the date
\* columns of the table that df has
ParseDates(name, df) ==
    [kind |-> "DataFrame",
     dates |-> "datetime64",
     rows |-> [i \in DOMAIN df.rows |->
        [f \in DOMAIN df.rows[i] |->
            IF f \in date_columns[name] THEN to_datetime(df.rows[i][f])
            ELSE df.rows[i][f]]]]

Position(name) == CHOOSE i \in DOMAIN LoadOrder : LoadOrder[i] = name

\* the place in LoadOrder of the first file that is not there, 0 if none is
FirstMissing ==
    LET missing == {i \in DOMAIN LoadOrder : ~data_dir[LoadOrder[i]].exists}
    IN  IF missing = {} THEN 0
        ELSE CHOOSE i \in missing : \A j \in missing : i <= j

\* a mutant of load_data: a failed load puts every table back to None
load_data_rollback ==
    /\ IF FirstMissing = 0
       THEN /\ store' = [name \in TableNames |-> ParseDates(name, read_csv(name))]
            /\ ret' = Return("load_data", <<>>, <<>>)
       ELSE /\ store' = [name \in TableNames |-> None]
            /\ ret' = Raise("load_data", <<>>, "FileNotFoundError")
    /\ UNCHANGED data_dir

load_data ==
    /\ IF FirstMissing = 0
       THEN /\ store' = [name \in TableNames |-> ParseDates(name, read_csv(name))]
            /\ ret' = Return("load_data", <<>>, <<>>)
       ELSE /\ store' = [name \in TableNames |->
                            IF Position(name) < FirstMissing
                            THEN read_csv(name) ELSE store[name]]
            /\ ret' = Raise("load_data", <<>>, "FileNotFoundError")
    /\ UNCHANGED data_dir


(***************************************************************************)
(* Selections and the rendering helpers.                                   *)
(***************************************************************************)
\* df[column].tolist()
Column(rows, column) == [i \in DOMAIN rows |-> rows[i][column]]

\* df[df['Id'] == id]: .iloc[0] of it raises IndexError when it is empty
ById(df, id) == SelectSeq(df.rows, LAMBDA row : row.Id = id)

\* a mutant of ByPatient: only the rows that have no stop date
ByPatient_open(df, patient_id) ==
    SelectSeq(df.rows, LAMBDA row : row.PATIENT = patient_id /\ row.STOP = NaT)

\* df[df['PATIENT'] == patient_id]
ByPatient(df, patient_id) ==
    SelectSeq(df.rows, LAMBDA row : row.PATIENT = patient_id)

\* df[(df['PATIENT'] == patient_id) & (df['ENCOUNTER'] == encounter_id)]
ByPatientEncounter(df, patient_id, encounter_id) ==
    SelectSeq(df.rows,
        LAMBDA row : row.PATIENT = patient_id /\ row.ENCOUNTER = encounter_id)

\* a mutant of ActiveAt: both ends of the window exclusive
ActiveAt_exclusive(df, patient_id, start) ==
    SelectSeq(df.rows,
        LAMBDA row :
            /\ row.PATIENT = patient_id
            /\ TimestampLE(row.START, start) /\ row.START # start
            /\ (row.STOP = NaT
                    \/ (TimestampLE(start, row.STOP) /\ row.STOP # start)))

\* df[(df['PATIENT'] == patient_id) & (df['START'] <= start) &
\*    ((df['STOP'].isna()) | (df['STOP'] >= start))]
ActiveAt(df, patient_id, start) ==
    SelectSeq(df.rows,
        LAMBDA row :
            /\ row.PATIENT = patient_id
            /\ TimestampLE(row.START, start)
            /\ (row.STOP = NaT \/ TimestampLE(start, row.STOP)))

\* a mutant of Age: a year less until the birthday has passed
Age_birthday(encounter, patient) ==
    encounter.START[1] - patient.BIRTHDATE[1]
        - (IF \/ encounter.START[2] < patient.BIRTHDATE[2]
              \/ /\ encounter.START[2] = patient.BIRTHDATE[2]
                 /\ encounter.START[3] < patient.BIRTHDATE[3]
           THEN 1 ELSE 0)

\* encounter['START'].year - patient['BIRTHDATE'].year
Age(encounter, patient) == encounter.START[1] - patient.BIRTHDATE[1]

\* a mutant of observation_line: no space is left when the unit is missing
observation_line_stripped(row) ==
    row.DESCRIPTION \o ": " \o row.VALUE
        \o (IF row.UNITS = NaN THEN "" ELSE " " \o row.UNITS)

observation_line(row) ==
    row.DESCRIPTION \o ": " \o row.VALUE \o " "
        \o (IF row.UNITS = NaN THEN "" ELSE row.UNITS)

_process_observations(observations) ==
    [i \in DOMAIN observations |-> observation_line(observations[i])]

RECURSIVE Join(_, _)
\* sep.join(strs)
Join(sep, strs) ==
    IF strs = <<>> THEN ""
    ELSE IF Len(strs) = 1 THEN strs[1]
    ELSE strs[1] \o sep \o Join(sep, Tail(strs))

\* a mutant of _format_list: every item line ends with a newline
_format_list_trailing(title, items) ==
    IF items = <<>> THEN title \o "None"
    ELSE title \o Join("", [i \in DOMAIN items |-> "- " \o items[i] \o "\n"])

_format_list(title, items) ==
    IF items = <<>> THEN title \o "None"
    ELSE title \o Join("\n", [i \in DOMAIN items |-> "- " \o items[i]])

\* _format_dict on the demographics dict, whose keys were inserted in the
\* order age, gender, race, ethnicity
_format_dict(data) ==
    Join("\n", <<"- age: " \o ToString(data.age),
                 "- gender: " \o data.gender,
                 "- race: " \o data.race,
                 "- ethnicity: " \o data.ethnicity>>)

\* the str that a sequence of f-string parts stands for
Text(parts) == Join("", parts)

(***************************************************************************)
(* get_patient_history.  Subscripting a table that is still None raises    *)
(* TypeError, .iloc[0] of an empty selection raises IndexError, and .year  *)
(* of a date that load_data has not converted (a str) raises               *)
(* AttributeError; the statements run in the order of the source.          *)
(***************************************************************************)
Outcome(kind, exc, value) == [kind |-> kind, exc |-> exc, value |-> value]

\* a mutant of PatientHistory: an unknown patient or encounter gives an
\* empty history instead of an exception
PatientHistory_default(patient_id, encounter_id) ==
    IF \E name \in TableNames : store[name] = None
    THEN Outcome("raise", "TypeError", <<>>)
    ELSE Outcome("return", "",
            [demographics |->
                [age |-> 0, gender |-> "", race |-> "", ethnicity |-> ""],
             observations |-> <<>>, conditions |-> <<>>, medications |-> <<>>,
             careplans |-> <<>>, encounters |-> <<>>])

PatientHistory(patient_id, encounter_id) ==
    IF store.patients = None THEN Outcome("raise", "TypeError", <<>>)
    ELSE IF ById(store.patients, patient_id) = <<>>
    THEN Outcome("raise", "IndexError", <<>>)
    ELSE IF \E name \in {"conditions", "medications", "encounters", "careplans"} :
                store[name] = None
    THEN Outcome("raise", "TypeError", <<>>)
    ELSE IF ById(store.encounters, encounter_id) = <<>>
    THEN Outcome("raise", "IndexError", <<>>)
    ELSE IF store.observations = None THEN Outcome("raise", "TypeError", <<>>)
    ELSE IF store.encounters.dates = "object" \/ store.patients.dates = "object"
    THEN Outcome("raise", "AttributeError", <<>>)
    ELSE
        LET patient == ById(store.patients, patient_id)[1]
            encounter == ById(store.encounters, encounter_id)[1]
            observations ==
                ByPatientEncounter(store.observations, patient_id, encounter_id)
        IN  Outcome("return", "",
                [demographics |->
                    [age |-> Age(encounter, patient),
                     gender |-> patient.GENDER,
                     race |-> patient.RACE,
                     ethnicity |-> patient.ETHNICITY],
                 observations |-> _process_observations(observations),
                 conditions |->
                    Column(ByPatient(store.conditions, patient_id), "DESCRIPTION"),
                 medications |->
                    Column(ByPatient(store.medications, patient_id), "DESCRIPTION"),
                 careplans |->
                    Column(ByPatient(store.careplans, patient_id), "DESCRIPTION"),
                 encounters |->
                    Column(ByPatient(store.encounters, patient_id), "DESCRIPTION")])

Called(op, args, outcome) ==
    [op |-> op, args |-> args, kind |-> outcome.kind, exc |-> outcome.exc,
     value |-> outcome.value]

\* a mutant of get_patient_history: the selection of the observations is
\* stored back into self.observations
get_patient_history_narrowing(patient_id, encounter_id) ==
    /\ ret' = Called("get_patient_history", <<patient_id, encounter_id>>,
                     PatientHistory(patient_id, encounter_id))
    /\ store' =
            IF store.observations = None THEN store
            ELSE [store EXCEPT !.observations.rows =
                    ByPatientEncounter(store.observations, patient_id,
                                       encounter_id)]
    /\ UNCHANGED data_dir

get_patient_history(patient_id, encounter_id) ==
    /\ ret' = Called("get_patient_history", <<patient_id, encounter_id>>,
                     PatientHistory(patient_id, encounter_id))
    /\ UNCHANGED <<data_dir, store>>

(***************************************************************************)
(* The templates of the four generators, as f-string parts.                *)
(***************************************************************************)
\* a mutant of reason_for_visit: the missing reason is printed as it is
reason_for_visit_raw(encounter) == encounter.REASONDESCRIPTION

\* 'Not provided' if pd.isna(encounter['REASONDESCRIPTION']) else the reason
reason_for_visit(encounter) ==
    IF encounter.REASONDESCRIPTION = NaN THEN "Not provided"
    ELSE encounter.REASONDESCRIPTION

ChainParts(history) ==
  <<
    "Analyze this patient's medical history step by step:\n"
      \o "Patient Information:\n- Age: ",
    ToString(history.demographics.age),
    "\n- Gender: ",
    history.demographics.gender,
    "\n- Race: ",
    history.demographics.race,
    "\n- Ethnicity: ",
    history.demographics.ethnicity,
    "\n\nMedical History:\n",
    _format_list("Conditions\n", history.conditions),
    "\n",
    _format_list("Current Medications\n", history.medications),
    "\n",
    _format_list("Observations\n", history.observations),
    "\n\nReason through this case:\n"
      \o "1. What are the primary health concerns based on the conditions?\n"
      \o "2. How do these conditions interact with each other?\n"
      \o "3. Are the current medications appropriate for these conditions?\n"
      \o "4. What additional monitoring or interventions might be needed?\n"
      \o "5. What preventive measures should be considered?\n\n"
      \o "Based on this analysis, please provide:\n"
      \o "1. A prioritized list of health concerns\n"
      \o "2. Recommendations for medication adjustments\n"
      \o "3. Suggested monitoring plan\n"
      \o "4. Preventive care recommendations\n"
  >>

TreeParts(history) ==
  <<
    "Let's analyze this patient's case through multiple reasoning paths:\n"
      \o "Patient Profile:\n",
    _format_dict(history.demographics),
    "\n\nCurrent Medical Status:\n",
    _format_list("Active Conditions\n", history.conditions),
    "\n",
    _format_list("Current Medications\n", history.medications),
    "\n",
    _format_list("Observations\n", history.observations),
    "\n\nPath A - Diagnostic Assessment:\n"
      \o "1. What patterns emerge from the current conditions?\n"
      \o "2. Are there potential underlying conditions?\n"
      \o "3. What are the risk factors for disease progression?\n\n"
      \o "Path B - Treatment Optimization:\n"
      \o "1. How effective is the current medication regimen?\n"
      \o "2. What are potential drug interactions?\n"
      \o "3. What alternative treatments could be considered?\n\n"
      \o "Path C - Preventive Planning:\n"
      \o "1. What are the modifiable risk factors?\n"
      \o "2. What preventive screenings are needed?\n"
      \o "3. What lifestyle modifications would be beneficial?\n\n"
      \o "Synthesize these paths to provide:\n"
      \o "1. Comprehensive health assessment\n"
      \o "2. Treatment recommendations\n3. Preventive care plan\n"
  >>

FewShotParts(history) ==
  <<
    "Here is a similar medical case and its analysis:\n\n"
      \o "Patient Profile:\n- Age: 45\n- Gender: F\n- Race: Black\n"
      \o "- Ethnicity: Non-Hispanic\nConditions:\n"
      \o "- Housing instability (finding)\n"
      \o "- Financial insecurity (finding)\n"
      \o "- Social isolation (finding)\n- Stress (finding)\n"
      \o "- Hypertension (disorder)\n"
      \o "- Type 2 diabetes mellitus (disorder)\n"
      \o "- Depression (disorder)\n- Obesity (finding)\n"
      \o "Current Medications:\n- Metformin 500 mg oral tablet\n"
      \o "- Lisinopril 10 mg oral tablet\n"
      \o "- Sertraline 50 mg oral tablet\n\nAnalysis:\n"
      \o "The patient presents with multiple socio-environmental challenges, including housing instability, \n"
      \o "financial insecurity, and social isolation, contributing to significant stress. These factors are \n"
      \o "likely exacerbating her chronic conditions of hypertension, type 2 diabetes, and depression. The \n"
      \o "presence of obesity adds further risk for complications.\n\n",
    "Now analyze this new case:\nPatient Profile:\n",
    _format_dict(history.demographics),
    "\n",
    _format_list("Conditions\n", history.conditions),
    "\n",
    _format_list("Current Medications\n", history.medications),
    "\n",
    _format_list("Observations\n", history.observations),
    "\n\nProvide a similar analysis for this case.\n"
  >>

\* note = f"""MEDICAL NOTE ...""" of the rows selected for the four lists
NoteParts(encounter, patient, conditions, medications, ongoing, new) ==
  <<
    "MEDICAL NOTE\nDate: ",
    strftime(encounter.START),
    "\nVisit Type: ",
    encounter.DESCRIPTION,
    "\n\nPATIENT DEMOGRAPHICS\nAge: ",
    ToString(Age(encounter, patient)),
    "\nGender: ",
    patient.GENDER,
    "\n\nREASON FOR VISIT\n",
    reason_for_visit(encounter),
    "\n\nACTIVE CONDITIONS\n",
    _format_list("", Column(conditions, "DESCRIPTION")),
    "\n\nCURRENT MEDICATIONS\n",
    _format_list("", Column(medications, "DESCRIPTION")),
    "\n\nONGOING CAREPLANS\n",
    _format_list("", Column(ongoing, "DESCRIPTION")),
    "\n\nNEW CAREPLANS\n",
    _format_list("", Column(new, "DESCRIPTION")),
    "\n"
  >>

SimplificationParts(note, language) ==
  <<
    "Task: Simplify this medical note for the patient.\n\n"
      \o "Original Note:\n"
  >> \o note \o <<
    "\n\nPlease follow these guidelines for the simplified note:\n"
      \o "- Write the note in ",
    language,
    "\n- Tailor the note to their age\n"
      \o "- Use appropriate language for the audience\n"
      \o "- Maintain all important medical information\n"
      \o "- Explain medical terms when needed\n"
      \o "- Include any important instructions or follow-up steps\n"
  >>

(***************************************************************************)
(* The generators.  The first three resolve the encounter and hand its     *)
(* patient id to get_patient_history, whose exception they let through.    *)
(***************************************************************************)
Resolved(encounter_id) ==
    IF store.encounters = None THEN Outcome("raise", "TypeError", <<>>)
    ELSE IF ById(store.encounters, encounter_id) = <<>>
    THEN Outcome("raise", "IndexError", <<>>)
    ELSE PatientHistory(ById(store.encounters, encounter_id)[1].PATIENT,
                        encounter_id)

generate_chain_of_thought_prompt(encounter_id) ==
    /\ LET history == Resolved(encounter_id)
       IN  ret' = Called("generate_chain_of_thought_prompt", <<encounter_id>>,
                    IF history.kind = "raise" THEN history
                    ELSE Outcome("return", "", ChainParts(history.value)))
    /\ UNCHANGED <<data_dir, store>>

generate_tree_of_thoughts_prompt(encounter_id) ==
    /\ LET history == Resolved(encounter_id)
       IN  ret' = Called("generate_tree_of_thoughts_prompt", <<encounter_id>>,
                    IF history.kind = "raise" THEN history
                    ELSE Outcome("return", "", TreeParts(history.value)))
    /\ UNCHANGED <<data_dir, store>>

generate_few_shot_prompt(encounter_id) ==
    /\ LET history == Resolved(encounter_id)
       IN  ret' = Called("generate_few_shot_prompt", <<encounter_id>>,
                    IF history.kind = "raise" THEN history
                    ELSE Outcome("return", "", FewShotParts(history.value)))
    /\ UNCHANGED <<data_dir, store>>

\* a mutant of encounter_careplans: the patient is not looked at
encounter_careplans_any_patient(patient_id, encounter_id) ==
    SelectSeq(store.careplans.rows, LAMBDA row : row.ENCOUNTER = encounter_id)

\* df[(df['PATIENT'] == patient_id) & (df['ENCOUNTER'] == encounter_id)]
\* on self.careplans
encounter_careplans(patient_id, encounter_id) ==
    ByPatientEncounter(store.careplans, patient_id, encounter_id)

\* The ways generate_medical_note_prompt can end.  On tables whose dates
\* load_data has not converted the comparisons of lines 202-218 run on str
\* and float cells and encounter['START'].strftime is taken of a str: the
\* call raises TypeError or AttributeError, whichever statement fails first.
MedicalNote(encounter_id, language) ==
    IF store.encounters = None THEN {Outcome("raise", "TypeError", <<>>)}
    ELSE IF ById(store.encounters, encounter_id) = <<>>
    THEN {Outcome("raise", "IndexError", <<>>)}
    ELSE IF store.patients = None THEN {Outcome("raise", "TypeError", <<>>)}
    ELSE IF ById(store.patients,
                 ById(store.encounters, encounter_id)[1].PATIENT) = <<>>
    THEN {Outcome("raise", "IndexError", <<>>)}
    ELSE IF \E name \in {"conditions", "medications", "careplans"} :
                store[name] = None
    THEN {Outcome("raise", "TypeError", <<>>)}
    ELSE IF \E name \in TableNames \ {"observations"} :
                store[name].dates = "object"
    THEN {Outcome("raise", exc, <<>>) : exc \in {"TypeError", "AttributeError"}}
    ELSE
        LET encounter == ById(store.encounters, encounter_id)[1]
            patient_id == encounter.PATIENT
            patient == ById(store.patients, patient_id)[1]
            note ==
                NoteParts(encounter, patient,
                    ActiveAt(store.conditions, patient_id, encounter.START),
                    ActiveAt(store.medications, patient_id, encounter.START),
                    ActiveAt(store.careplans, patient_id, encounter.START),
                    encounter_careplans(patient_id, encounter_id))
        IN  {Outcome("return", "", SimplificationParts(note, language))}

generate_medical_note_prompt(encounter_id, language) ==
    /\ \E outcome \in MedicalNote(encounter_id, language) :
          ret' = Called("generate_medical_note_prompt",
                        <<encounter_id, language>>, outcome)
    /\ UNCHANGED <<data_dir, store>>

(***************************************************************************)
(* _format_list called on its own, on a title and a list of items.         *)
(***************************************************************************)
Titles == {"", "Conditions\n", "Current Medications\n"}
Items == {"a", "b", "c"}

format_list_call(title, items) ==
    /\ ret' = Return("_format_list", <<title, items>>, _format_list(title, items))
    /\ UNCHANGED <<data_dir, store>>

Next ==
    \/ load_data
    \/ \E patient_id \in PatientIds, encounter_id \in EncounterIds :
          get_patient_history(patient_id, encounter_id)
    \/ \E encounter_id \in EncounterIds :
          generate_chain_of_thought_prompt(encounter_id)
    \/ \E encounter_id \in EncounterIds :
          generate_tree_of_thoughts_prompt(encounter_id)
    \/ \E encounter_id \in EncounterIds :
          generate_few_shot_prompt(encounter_id)
    \/ \E encounter_id \in EncounterIds, language \in Languages :
          generate_medical_note_prompt(encounter_id, language)

Spec == Init /\ [][Next]_vars

InitFormat ==
    /\ data_dir = BaseDir
    /\ store = [name \in TableNames |-> None]
    /\ ret = Return("__init__", <<>>, <<>>)

NextFormat ==
    \E title \in Titles, items \in SeqsUpTo(Items, MaxItems) :
        format_list_call(title, items)

SpecFormat == InitFormat /\ [][NextFormat]_vars

(***************************************************************************)
(* What the properties below are stated with.                              *)
(***************************************************************************)
Queries ==
    {"get_patient_history", "generate_chain_of_thought_prompt",
     "generate_tree_of_thoughts_prompt", "generate_few_shot_prompt",
     "generate_medical_note_prompt"}

Generators == Queries \ {"get_patient_history"}

\* load_data has succeeded: every table is there, with its dates converted
Loaded ==
    \A name \in TableNames :
        store[name].kind = "DataFrame" /\ store[name].dates = "datetime64"

Returned(op) == ret.op = op /\ ret.kind = "return"

\* the first row of a table with the given id, and whether there is one
Resolves(name, id) == \E i \in DOMAIN store[name].rows : store[name].rows[i].Id = id

RowOf(name, id) ==
    LET rows == store[name].rows
    IN  rows[CHOOSE i \in DOMAIN rows :
                rows[i].Id = id /\ \A j \in 1..(i - 1) : rows[j].Id # id]

\* the part of a prompt that follows the literal text header
Section(parts, header) ==
    parts[(CHOOSE i \in DOMAIN parts : parts[i] = header) + 1]

RECURSIVE Bullets(_)
\* the items, each after "- ", one per line, no newline after the last
Bullets(items) ==
    IF Len(items) = 1 THEN "- " \o items[1]
    ELSE Bullets(SubSeq(items, 1, Len(items) - 1))
            \o "\n" \o "- " \o items[Len(items)]

\* a list as a prompt shows it
Listed(items) == IF Len(items) = 0 THEN "None" ELSE Bullets(items)

\* the descriptions of the given rows, in their order
Descriptions(rows) == [i \in 1..Len(rows) |-> rows[i].DESCRIPTION]

\* a date as a number that orders as the calendar does
DayNumber(t) == t[1] * 10000 + t[2] * 100 + t[3]

\* start <= T and (stop absent or stop >= T)
InWindow(row, T) ==
    /\ DayNumber(row.START) <= DayNumber(T)
    /\ (row.STOP = NaT \/ DayNumber(row.STOP) >= DayNumber(T))

\* the encounter and the patient of the medical note that has been returned
NoteEncounter == RowOf("encounters", ret.args[1])
NotePatient == RowOf("patients", NoteEncounter.PATIENT)

(***************************************************************************)
(* C1: in the note of generate_medical_note_prompt, each of ACTIVE         *)
(* CONDITIONS, CURRENT MEDICATIONS and ONGOING CAREPLANS lists, in table   *)
(* order, the descriptions of exactly the rows of its table whose patient  *)
(* is the encounter's patient and that have start <= T and stop absent or  *)
(* stop >= T, T being the start of the encounter (both ends inclusive).    *)
(***************************************************************************)
ActiveSections ==
    {<<"\n\nACTIVE CONDITIONS\n", "conditions">>,
     <<"\n\nCURRENT MEDICATIONS\n", "medications">>,
     <<"\n\nONGOING CAREPLANS\n", "careplans">>}

C1_ActiveListsAreTheWindow ==
    Returned("generate_medical_note_prompt") =>
        \A s \in ActiveSections :
            Section(ret.value, s[1]) =
                Listed(Descriptions(SelectSeq(store[s[2]].rows,
                    LAMBDA row : /\ row.PATIENT = NoteEncounter.PATIENT
                                 /\ InWindow(row, NoteEncounter.START))))

\* a note whose conditions table has a row that starts and stops at T, which
\* is listed, after a row of the same patient that starts after T, which is not
C1_Witness ==
    /\ Returned("generate_medical_note_prompt")
    /\ Len(store.conditions.rows) = 2
    /\ \A i \in 1..2 : store.conditions.rows[i].PATIENT = NoteEncounter.PATIENT
    /\ DayNumber(store.conditions.rows[1].START) > DayNumber(NoteEncounter.START)
    /\ store.conditions.rows[2].START = NoteEncounter.START
    /\ store.conditions.rows[2].STOP = NoteEncounter.START
    /\ Section(ret.value, "\n\nACTIVE CONDITIONS\n") = "- condition 2"

(***************************************************************************)
(* C2: get_patient_history, when it returns, lists under conditions,       *)
(* medications and careplans the descriptions of all the rows of the table *)
(* with the given patient id, in table order, whatever their dates: as     *)
(* many as the table has rows of that patient.                             *)
(***************************************************************************)
HistoryTables == {"conditions", "medications", "careplans"}

C2_HistoryListsAllRows ==
    Returned("get_patient_history") =>
        \A name \in HistoryTables :
            /\ ret.value[name] =
                    Descriptions(SelectSeq(store[name].rows,
                        LAMBDA row : row.PATIENT = ret.args[1]))
            /\ Len(ret.value[name]) =
                    Cardinality({i \in DOMAIN store[name].rows :
                                    store[name].rows[i].PATIENT = ret.args[1]})

\* a history that lists both conditions of the patient, the first of which
\* had stopped before the encounter started
C2_Witness ==
    /\ Returned("get_patient_history")
    /\ Len(ret.value.conditions) = 2
    /\ Len(store.conditions.rows) = 2
    /\ store.conditions.rows[1].STOP # NaT
    /\ DayNumber(store.conditions.rows[1].STOP)
            < DayNumber(RowOf("encounters", ret.args[2]).START)

(***************************************************************************)
(* C3: on a loaded store, a generator called with an encounter id that no  *)
(* encounter row has, or whose encounter names a patient that no patient   *)
(* row has, raises the not-found error (the IndexError of .iloc[0]) and    *)
(* returns no prompt.                                                      *)
(***************************************************************************)
NotFoundError == "IndexError"

Unresolvable(encounter_id) ==
    \/ ~Resolves("encounters", encounter_id)
    \/ ~Resolves("patients", RowOf("encounters", encounter_id).PATIENT)

C3_UnresolvedRaisesNotFound ==
    (Loaded /\ ret.op \in Generators /\ Unresolvable(ret.args[1])) =>
        /\ ret.kind = "raise"
        /\ ret.exc = NotFoundError
        /\ ret.value = <<>>

\* the chain-of-thought generator on an encounter whose patient is unknown
C3_Witness ==
    /\ Loaded
    /\ ret.op = "generate_chain_of_thought_prompt"
    /\ Resolves("encounters", ret.args[1])
    /\ ~Resolves("patients", RowOf("encounters", ret.args[1]).PATIENT)
    /\ ret.kind = "raise"

(***************************************************************************)
(* C4, as claimed: after load_data has failed on a missing file none of    *)
(* the six tables is populated.                                            *)
(***************************************************************************)
C4_FailedLoadLeavesNoTable ==
    (ret.op = "load_data" /\ ret.kind = "raise") =>
        \A name \in TableNames : store[name] = None

(***************************************************************************)
(* C4, amended: load_data on a new object fails with the FileNotFoundError *)
(* of the first missing file; the tables read before that file stay        *)
(* populated, their dates not converted, the missing table and those read  *)
(* after it stay None; and as long as the store is not fully loaded every  *)
(* call of get_patient_history or of a generator raises.                   *)
(***************************************************************************)
MissingSourceError == "FileNotFoundError"

ReadBeforeFailure(name) ==
    \A i \in DOMAIN LoadOrder :
        ~data_dir[LoadOrder[i]].exists => Position(name) < i

C4_FailedLoadKeepsTablesReadBefore ==
    /\ (ret.op = "load_data" /\ ret.kind = "raise") =>
        /\ ret.exc = MissingSourceError
        /\ \E name \in TableNames : ~data_dir[name].exists
        /\ \A name \in TableNames :
              IF ReadBeforeFailure(name)
              THEN store[name] =
                    [kind |-> "DataFrame", dates |-> "object",
                     rows |-> data_dir[name].rows]
              ELSE store[name] = None
    /\ (~Loaded /\ ret.op \in Queries) => ret.kind = "raise"

\* observations.csv alone is missing: the other five tables are populated
C4_Witness ==
    /\ ret.op = "load_data"
    /\ ret.kind = "raise"
    /\ store.observations = None
    /\ \A name \in TableNames \ {"observations"} : store[name] # None

(***************************************************************************)
(* C5: on a loaded store no call of get_patient_history or of a generator, *)
(* whether it returns or raises, changes any of the six tables.            *)
(***************************************************************************)
C5_QueriesLeaveStoreUnchanged ==
    [][(Loaded /\ ret'.op \in Queries) => store' = store]_vars

\* a generator has failed on a loaded store, which still holds its rows
C5_Witness ==
    /\ Loaded
    /\ ret.op = "generate_medical_note_prompt"
    /\ ret.kind = "raise"
    /\ store.observations.rows # <<>>

(***************************************************************************)
(* C6: the age of get_patient_history and the Age line of the medical note *)
(* are the year of the encounter's start minus the year of the patient's   *)
(* birth date: 20 for a birth on 2000-12-31 and an encounter on 2020-01-01.*)
(***************************************************************************)
YearOf(t) == t[1]

C6_AgeIsYearDifference ==
    /\ Returned("get_patient_history") =>
        LET encounter == RowOf("encounters", ret.args[2])
            patient == RowOf("patients", ret.args[1])
        IN  /\ ret.value.demographics.age =
                    YearOf(encounter.START) - YearOf(patient.BIRTHDATE)
            /\ (patient.BIRTHDATE = <<2000, 12, 31>>
                    /\ encounter.START = <<2020, 1, 1>>)
                => ret.value.demographics.age = 20
    /\ Returned("generate_medical_note_prompt") =>
        /\ Section(ret.value, "\n\nPATIENT DEMOGRAPHICS\nAge: ") =
                ToString(YearOf(NoteEncounter.START) - YearOf(NotePatient.BIRTHDATE))
        /\ (NotePatient.BIRTHDATE = <<2000, 12, 31>>
                /\ NoteEncounter.START = <<2020, 1, 1>>)
            => Section(ret.value, "\n\nPATIENT DEMOGRAPHICS\nAge: ") = "20"

\* the note of a patient born 2000-12-31 for an encounter of 2020-01-01
C6_Witness ==
    /\ Returned("generate_medical_note_prompt")
    /\ NotePatient.BIRTHDATE = <<2000, 12, 31>>
    /\ NoteEncounter.START = <<2020, 1, 1>>
    /\ Section(ret.value, "\n\nPATIENT DEMOGRAPHICS\nAge: ") = "20"

(***************************************************************************)
(* C7: the observations of get_patient_history are, in table order, one    *)
(* string for each observation row with the given patient id and encounter *)
(* id: description, ": ", value, " " and the unit, the unit being empty    *)
(* when it is missing ("Body Height: 170 " and "Body Height: 170 cm").     *)
(***************************************************************************)
Unit(row) == IF row.UNITS = NaN THEN "" ELSE row.UNITS

C7_ObservationLines ==
    Returned("get_patient_history") =>
        LET kept == SelectSeq(store.observations.rows,
                        LAMBDA row : /\ row.PATIENT = ret.args[1]
                                     /\ row.ENCOUNTER = ret.args[2])
        IN  /\ Len(ret.value.observations) = Len(kept)
            /\ \A i \in 1..Len(kept) :
                  /\ ret.value.observations[i] =
                        kept[i].DESCRIPTION \o ": " \o kept[i].VALUE \o " "
                            \o Unit(kept[i])
                  /\ (kept[i].VALUE = "170" /\ kept[i].UNITS = NaN)
                        => ret.value.observations[i] = "Body Height: 170 "
                  /\ (kept[i].VALUE = "170" /\ kept[i].UNITS = "cm")
                        => ret.value.observations[i] = "Body Height: 170 cm"

\* a row without a unit is rendered, after a row of another encounter that
\* is left out
C7_Witness ==
    /\ Returned("get_patient_history")
    /\ Len(store.observations.rows) = 2
    /\ store.observations.rows[1].ENCOUNTER # ret.args[2]
    /\ ret.value.observations = <<"Body Height: 171 ">>

(***************************************************************************)
(* C8, as claimed: NEW CAREPLANS lists the descriptions of exactly the     *)
(* care-plan rows whose encounter id is the given encounter id.            *)
(***************************************************************************)
C8_NewCareplansByEncounterAlone ==
    Returned("generate_medical_note_prompt") =>
        Section(ret.value, "\n\nNEW CAREPLANS\n") =
            Listed(Descriptions(SelectSeq(store.careplans.rows,
                LAMBDA row : row.ENCOUNTER = ret.args[1])))

(***************************************************************************)
(* C8, amended: NEW CAREPLANS lists, in table order, the descriptions of   *)
(* exactly the care-plan rows whose encounter id is the given encounter id *)
(* and whose patient id is the patient id of that encounter; such a row    *)
(* that is also active at the encounter's start is listed under ONGOING    *)
(* CAREPLANS as well.                                                      *)
(***************************************************************************)
IsNewCareplan(row) ==
    row.ENCOUNTER = ret.args[1] /\ row.PATIENT = NoteEncounter.PATIENT

C8_NewCareplansByEncounterAndPatient ==
    Returned("generate_medical_note_prompt") =>
        /\ Section(ret.value, "\n\nNEW CAREPLANS\n") =
                Listed(Descriptions(SelectSeq(store.careplans.rows, IsNewCareplan)))
        /\ (/\ Len(store.careplans.rows) = 1
            /\ IsNewCareplan(store.careplans.rows[1])
            /\ InWindow(store.careplans.rows[1], NoteEncounter.START))
            => /\ Section(ret.value, "\n\nNEW CAREPLANS\n") =
                    "- " \o store.careplans.rows[1].DESCRIPTION
               /\ Section(ret.value, "\n\nONGOING CAREPLANS\n") =
                    "- " \o store.careplans.rows[1].DESCRIPTION

\* a care plan of this encounter and patient, active at its start, is in
\* both lists, and a care plan of this encounter but of another patient is
\* in neither
C8_Witness ==
    /\ Returned("generate_medical_note_prompt")
    /\ Len(store.careplans.rows) = 2
    /\ store.careplans.rows[1].ENCOUNTER = ret.args[1]
    /\ store.careplans.rows[1].PATIENT # NoteEncounter.PATIENT
    /\ IsNewCareplan(store.careplans.rows[2])
    /\ Section(ret.value, "\n\nNEW CAREPLANS\n") = "- careplan 2"
    /\ Section(ret.value, "\n\nONGOING CAREPLANS\n") = "- careplan 2"

(***************************************************************************)
(* C9: REASON FOR VISIT reads "Not provided" when the encounter has no     *)
(* reason description, and the stored reason description when it has one.  *)
(***************************************************************************)
C9_ReasonForVisit ==
    Returned("generate_medical_note_prompt") =>
        /\ NoteEncounter.REASONDESCRIPTION = NaN
            => Section(ret.value, "\n\nREASON FOR VISIT\n") = "Not provided"
        /\ NoteEncounter.REASONDESCRIPTION # NaN
            => Section(ret.value, "\n\nREASON FOR VISIT\n") =
                    NoteEncounter.REASONDESCRIPTION

\* the note of an encounter that has no reason description
C9_Witness ==
    /\ Returned("generate_medical_note_prompt")
    /\ NoteEncounter.REASONDESCRIPTION = NaN
    /\ Section(ret.value, "\n\nREASON FOR VISIT\n") = "Not provided"

(***************************************************************************)
(* C10: _format_list(title, items) is the title followed by "None" when    *)
(* items is empty, and otherwise the title followed by the items in order, *)
(* each after "- ", with one newline between two items and none after the  *)
(* last: _format_list(title, ["a", "b"]) is title + "- a\n- b".            *)
(***************************************************************************)
C10_FormatList ==
    ret.op = "_format_list" =>
        LET title == ret.args[1]
            items == ret.args[2]
        IN  /\ items = <<>> => ret.value = title \o "None"
            /\ items # <<>> => ret.value = title \o Bullets(items)
            /\ items = <<"a", "b">> => ret.value = title \o "- a\n- b"

\* the call _format_list('Conditions\n', ['a', 'b'])
C10_Witness ==
    /\ ret.op = "_format_list"
    /\ ret.args = <<"Conditions\n", <<"a", "b">> >>
    /\ ret.value = "Conditions\n- a\n- b"
====
